---- MODULE Spec2Model ----
(***************************************************************************)
(* Model of the memory filter of src/openwebui-function/memory-re.py:      *)
(* the per-turn pipeline (outlet / _process_memory), the consolidation     *)
(* trigger (_increment_counter_and_trigger_summary), and the detached      *)
(* background tasks (_run_consolidation_task, _run_retroactive_cleanup).   *)
(*                                                                         *)
(* The program runs on one asyncio event loop: the code between two        *)
(* awaits is atomic, and every await is a point where another coroutine    *)
(* or task may run.  Each action below is one such atomic segment.         *)
(* Similarities are kept in hundredths (0.75 is 75).                       *)
(***************************************************************************)
EXTENDS Integers, Sequences, FiniteSets, TLC

\* ---------------------------------------------------------------- bounds
MaxFacts == 2      \* facts the extractor returns for one turn
MaxN     == 2      \* largest configured summarize_after_n_memories
MaxCand  == 2      \* results the store returns for one query
MaxMsgs  == 3      \* messages of one conversation (ContextSpec)
MaxText  == 3      \* tokens of the text the downloader reads (ExtractSpec)
MaxUrls  == 2      \* links handed to download_with_python (DownloadSpec)

\* default of http_download's retries
Retries == 3

\* default of download_with_python's max_workers
MaxWorkers == 4

\* default of Valves.consolidation_threshold (0.75), in hundredths
DefaultThreshold == 75

\* default of Valves.cleanup_batch_size
DefaultBatchSize == 50

Users   == {"u1", "u2"}
Turns   == {1, 2}             \* the outlet coroutines that may run side by side
MemIds  == {"m1", "m2"}
Docs    == {"a", "b"}
NonStr  == "#nonstr"          \* stands for a list element that is no str

VARIABLES
    valves,                   \* Filter.valves (the fields the model reads)
    _user_memory_counters,     \* Filter._user_memory_counters; absent key = 0
    _summarization_running,    \* Filter._summarization_running
    tasks,                    \* the event loop's unfinished detached tasks
    last_done,                \* the task that finished last, and how it ended
    turns,                    \* the outlet coroutines, one per turn
    dl                        \* bin/pexels-dw.py: one run of the downloader

vars == <<valves, _user_memory_counters, _summarization_running, tasks, last_done, turns, dl>>

\* ------------------------------------------------------------- helpers
RECURSIVE SeqsUpTo(_, _)
SeqsUpTo(S, n) ==
    IF n = 0 THEN {<< >>}
    ELSE LET shorter == SeqsUpTo(S, n - 1)
         IN  shorter \cup {Append(s, x) : s \in {q \in shorter : Len(q) = n - 1}, x \in S}

Candidate(i, d, x) == [id |-> i, content |-> d, distance |-> x]

\* The event loop holds the tasks that are not finished, each in a slot; a
\* finished task leaves the loop and its slot is free again.
TaskIds == 1..(Cardinality(Turns) * MaxFacts)
\* the locals of _run_retroactive_cleanup; `log` lists the calls it has awaited
NoFrame ==
    [batch_size |-> 0, valid_batch_ids |-> << >>, ids_to_delete |-> << >>,
     del_i |-> 0, deleted_count |-> 0, log |-> << >>]
NoTask  == [kind |-> "none", uid |-> "none", pc |-> "none", frame |-> NoFrame]
NoneDone == [kind |-> "none", uid |-> "none", outcome |-> "none"]

\* the downloader is a program of its own: the filter never runs it
NoDownload ==
    [pc |-> "none", text |-> << >>, ordered |-> << >>, workers |-> << >>,
     files |-> << >>, code |-> 0]

\* the store's answer to query_memory: it raises, it has no ids, or it gives rows
QueryRaises == [kind |-> "raises", rows |-> << >>]
QueryNoIds  == [kind |-> "none", rows |-> << >>]
QueryRows(rows) == [kind |-> "rows", rows |-> rows]

\* the model's answer to _call_llm: it raises, or it gives a text (a list of words)
LlmRaises == [raises |-> TRUE, text |-> << >>]
LlmText(words) == [raises |-> FALSE, text |-> words]

Msg(role, content) == [role |-> role, content |-> content]

\* a reply that stands for "the model has not been asked"
PendingReply == LlmText(<< >>)

\* the locals of one fact's pass through the loop body of _process_memory and
\* the two functions it calls; `log` lists the calls awaited for the fact
FactLocals ==
    [result |-> QueryNoIds, similar_memories |-> << >>, action |-> "none",
     target_ids |-> << >>, del_i |-> 0, log |-> << >>]

\* one outlet coroutine.  `body` is the argument and the return value; the
\* last four fields are kept for the properties only: the facts whose
\* add_memory returned, as new records and as replacements, the calls that
\* raised during the turn, each with the index of its fact, and the last
\* reply of the classification model with the action made of it
IdleTurn ==
    [pc |-> "idle", uid |-> "none", body |-> << >>, context |-> << >>,
     new_facts |-> << >>, fact_i |-> 0, saved_count |-> 0, updated_count |-> 0,
     status |-> "none", message |-> << >>,
     added_new |-> 0, added_upd |-> 0, errors |-> {},
     decided |-> [reply |-> PendingReply, action |-> "none"]] @@ FactLocals

\* ------------------------------------------------------ pure functions

\* str.lower() on one word of a model reply
Lower(w) ==
    CASE w = "DUPLICATE" -> "duplicate"
      [] w = "Duplicate" -> "duplicate"
      [] w = "UPDATE"    -> "update"
      [] w = "Update"    -> "update"
      [] w = "NEW"       -> "new"
      [] OTHER           -> w

\* `word in res` after res = res.lower().strip()
Contains(text, word) == \E i \in 1..Len(text) : Lower(text[i]) = word

\* _build_context_string: "" (here << >>) when there is no user message, else the pair
\* (assistant message right before the last user message or "none", that user message)
RECURSIVE LastUserIdx(_, _)
LastUserIdx(messages, i) ==
    IF i = 0 THEN 0
    ELSE IF messages[i].role = "user" THEN i
    ELSE LastUserIdx(messages, i - 1)

\* mutant: the user message is paired with the last assistant message before
\* it, wherever that message stands
RECURSIVE LastAssistantIdx(_, _)
LastAssistantIdx(messages, i) ==
    IF i = 0 THEN 0
    ELSE IF messages[i].role = "assistant" THEN i
    ELSE LastAssistantIdx(messages, i - 1)

Context_LastAssistant(messages) ==
    LET last_user_idx == LastUserIdx(messages, Len(messages))
        ai_idx == LastAssistantIdx(messages, last_user_idx - 1)
    IN  IF last_user_idx = 0 THEN << >>
        ELSE <<"[Context] AI:",
               IF ai_idx > 0 THEN messages[ai_idx].content ELSE "none",
               "[Target] User:", messages[last_user_idx].content>>

_build_context_string(messages) ==
    LET last_user_idx == LastUserIdx(messages, Len(messages))
    IN  IF last_user_idx = 0 THEN << >>
        ELSE LET ai == IF last_user_idx > 1 /\ messages[last_user_idx - 1].role = "assistant"
                       THEN messages[last_user_idx - 1].content
                       ELSE "none"
             IN  <<"[Context] AI:", ai, "[Target] User:", messages[last_user_idx].content>>

\* mutant: the comparison with the threshold is > instead of >=
FilterRows_Strict(rows, threshold) ==
    LET keep == {i \in 1..Len(rows) : 100 - rows[i].distance > threshold}
        F[i \in 0..Len(rows)] ==
            IF i = 0 THEN << >>
            ELSE IF i \in keep
            THEN Append(F[i - 1], [id |-> rows[i].id, content |-> rows[i].content,
                                   similarity |-> 100 - rows[i].distance])
            ELSE F[i - 1]
    IN  F[Len(rows)]

\* the loop of _query_similar_memories over the rows, in the rows' order
RECURSIVE FilterRows(_, _)
FilterRows(rows, threshold) ==
    IF rows = << >> THEN << >>
    ELSE LET similarity == 100 - Head(rows).distance
             rest == FilterRows(Tail(rows), threshold)
         IN  IF similarity >= threshold
             THEN <<[id |-> Head(rows).id, content |-> Head(rows).content,
                     similarity |-> similarity]>> \o rest
             ELSE rest

_query_similar_memories(result, threshold) ==
    IF result.kind = "rows" THEN FilterRows(result.rows, threshold) ELSE << >>

\* mutant: no short-circuit on an empty candidate list, the model is asked
Analyze_NoShortCircuit(similar_memories, reply) ==
    IF reply.raises
    THEN [action |-> "new", target_ids |-> << >>, llm_calls |-> 1]
    ELSE IF Contains(reply.text, "duplicate")
    THEN [action |-> "skip", target_ids |-> << >>, llm_calls |-> 1]
    ELSE IF Contains(reply.text, "update")
    THEN [action |-> "update",
          target_ids |-> [i \in 1..Len(similar_memories) |-> similar_memories[i].id],
          llm_calls |-> 1]
    ELSE [action |-> "new", target_ids |-> << >>, llm_calls |-> 1]

\* mutant: an update targets the first candidate only
Analyze_TopOnly(similar_memories, reply) ==
    IF similar_memories = << >>
    THEN [action |-> "new", target_ids |-> << >>, llm_calls |-> 0]
    ELSE IF reply.raises
    THEN [action |-> "new", target_ids |-> << >>, llm_calls |-> 1]
    ELSE IF Contains(reply.text, "duplicate")
    THEN [action |-> "skip", target_ids |-> << >>, llm_calls |-> 1]
    ELSE IF Contains(reply.text, "update")
    THEN [action |-> "update", target_ids |-> <<similar_memories[1].id>>, llm_calls |-> 1]
    ELSE [action |-> "new", target_ids |-> << >>, llm_calls |-> 1]

\* mutant: "update" is tested before "duplicate"
Analyze_UpdateFirst(similar_memories, reply) ==
    IF similar_memories = << >>
    THEN [action |-> "new", target_ids |-> << >>, llm_calls |-> 0]
    ELSE IF reply.raises
    THEN [action |-> "new", target_ids |-> << >>, llm_calls |-> 1]
    ELSE IF Contains(reply.text, "update")
    THEN [action |-> "update",
          target_ids |-> [i \in 1..Len(similar_memories) |-> similar_memories[i].id],
          llm_calls |-> 1]
    ELSE IF Contains(reply.text, "duplicate")
    THEN [action |-> "skip", target_ids |-> << >>, llm_calls |-> 1]
    ELSE [action |-> "new", target_ids |-> << >>, llm_calls |-> 1]

\* mutant: a failing model call drops the fact instead of keeping it as new
Analyze_FailClosed(similar_memories, reply) ==
    IF similar_memories = << >>
    THEN [action |-> "new", target_ids |-> << >>, llm_calls |-> 0]
    ELSE IF reply.raises
    THEN [action |-> "skip", target_ids |-> << >>, llm_calls |-> 1]
    ELSE IF Contains(reply.text, "duplicate")
    THEN [action |-> "skip", target_ids |-> << >>, llm_calls |-> 1]
    ELSE IF Contains(reply.text, "update")
    THEN [action |-> "update",
          target_ids |-> [i \in 1..Len(similar_memories) |-> similar_memories[i].id],
          llm_calls |-> 1]
    ELSE [action |-> "new", target_ids |-> << >>, llm_calls |-> 1]

\* _analyze_relationship: the decision, and the number of model calls it made.
\* `reply` is what _call_llm gives when it is called.
_analyze_relationship(similar_memories, reply) ==
    IF similar_memories = << >>
    THEN [action |-> "new", target_ids |-> << >>, llm_calls |-> 0]
    ELSE IF reply.raises
    THEN [action |-> "new", target_ids |-> << >>, llm_calls |-> 1]
    ELSE IF Contains(reply.text, "duplicate")
    THEN [action |-> "skip", target_ids |-> << >>, llm_calls |-> 1]
    ELSE IF Contains(reply.text, "update")
    THEN [action |-> "update",
          target_ids |-> [i \in 1..Len(similar_memories) |-> similar_memories[i].id],
          llm_calls |-> 1]
    ELSE [action |-> "new", target_ids |-> << >>, llm_calls |-> 1]

\* ------------------------------------------------------------ the trigger

\* asyncio.create_task(coro): the task is put on the loop, not yet started
create_task(kind, uid) ==
    LET k == CHOOSE i \in TaskIds :
                 /\ tasks[i].pc = "none"
                 /\ \A j \in 1..(i - 1) : tasks[j].pc # "none"
    IN  tasks' = [tasks EXCEPT ![k] =
                     [NoTask EXCEPT !.kind = kind, !.uid = uid, !.pc = "scheduled"]]

\* mutant: the threshold test is > instead of >=
Trigger_StrictThreshold(uid) ==
    LET count == _user_memory_counters[uid] + 1
    IN  IF count > valves.summarize_after_n_memories /\ uid \notin _summarization_running
        THEN /\ _user_memory_counters' = [_user_memory_counters EXCEPT ![uid] = 0]
             /\ create_task("consolidation", uid)
        ELSE /\ _user_memory_counters' = [_user_memory_counters EXCEPT ![uid] = count]
             /\ UNCHANGED tasks

\* mutant: the counter is reset at every crossing, also when the user is in
\* the in-flight set
Trigger_ResetWhenBlocked(uid) ==
    LET count == _user_memory_counters[uid] + 1
    IN  IF count >= valves.summarize_after_n_memories
        THEN /\ _user_memory_counters' = [_user_memory_counters EXCEPT ![uid] = 0]
             /\ IF uid \notin _summarization_running
                THEN create_task("consolidation", uid)
                ELSE UNCHANGED tasks
        ELSE /\ _user_memory_counters' = [_user_memory_counters EXCEPT ![uid] = count]
             /\ UNCHANGED tasks

\* mutant: a crossing is blocked while any user's consolidation is in flight
Trigger_GlobalInFlight(uid) ==
    LET count == _user_memory_counters[uid] + 1
    IN  IF count >= valves.summarize_after_n_memories /\ _summarization_running = {}
        THEN /\ _user_memory_counters' = [_user_memory_counters EXCEPT ![uid] = 0]
             /\ create_task("consolidation", uid)
        ELSE /\ _user_memory_counters' = [_user_memory_counters EXCEPT ![uid] = count]
             /\ UNCHANGED tasks

\* mutant: the in-flight set is not consulted
Trigger_NoInFlightCheck(uid) ==
    LET count == _user_memory_counters[uid] + 1
    IN  IF count >= valves.summarize_after_n_memories
        THEN /\ _user_memory_counters' = [_user_memory_counters EXCEPT ![uid] = 0]
             /\ create_task("consolidation", uid)
        ELSE /\ _user_memory_counters' = [_user_memory_counters EXCEPT ![uid] = count]
             /\ UNCHANGED tasks

\* _increment_counter_and_trigger_summary(user): no await, so one atomic step.
\* The counter is reset only where the task is created; create_task only puts
\* the task on the loop, the task's body has not run yet.
_increment_counter_and_trigger_summary(uid) ==
    LET count == _user_memory_counters[uid] + 1
    IN  IF count >= valves.summarize_after_n_memories /\ uid \notin _summarization_running
        THEN /\ _user_memory_counters' = [_user_memory_counters EXCEPT ![uid] = 0]
             /\ create_task("consolidation", uid)
        ELSE /\ _user_memory_counters' = [_user_memory_counters EXCEPT ![uid] = count]
             /\ UNCHANGED tasks

\* ------------------------------------------------- detached tasks' steps

\* _run_consolidation_task up to its await: uid is added to the set
ConsolidationStart(k) ==
    /\ tasks[k].kind = "consolidation"
    /\ tasks[k].pc = "scheduled"
    /\ _summarization_running' = _summarization_running \cup {tasks[k].uid}
    /\ tasks' = [tasks EXCEPT ![k].pc = "running"]
    /\ UNCHANGED <<dl, valves, _user_memory_counters, last_done, turns>>

\* mutant: the discard is not in a finally clause, it runs on success only
Finish_DiscardOnSuccessOnly(k, outcome) ==
    /\ tasks[k].kind = "consolidation"
    /\ tasks[k].pc = "running"
    /\ outcome \in {"ok", "error", "cancelled"}
    /\ _summarization_running' =
           IF outcome = "ok" THEN _summarization_running \ {tasks[k].uid}
           ELSE _summarization_running
    /\ tasks' = [tasks EXCEPT ![k] = NoTask]
    /\ last_done' = [kind |-> "consolidation", uid |-> tasks[k].uid, outcome |-> outcome]
    /\ UNCHANGED <<dl, valves, _user_memory_counters, turns>>

\* mutant: the completing task also resets its user's counter
Finish_ResetsCounter(k, outcome) ==
    /\ tasks[k].kind = "consolidation"
    /\ tasks[k].pc = "running"
    /\ outcome \in {"ok", "error", "cancelled"}
    /\ _summarization_running' = _summarization_running \ {tasks[k].uid}
    /\ _user_memory_counters' = [_user_memory_counters EXCEPT ![tasks[k].uid] = 0]
    /\ tasks' = [tasks EXCEPT ![k] = NoTask]
    /\ last_done' = [kind |-> "consolidation", uid |-> tasks[k].uid, outcome |-> outcome]
    /\ UNCHANGED <<dl, valves, turns>>

\* _run_consolidation_task from its await on: the sleep returns ("ok"), raises
\* an Exception ("error", swallowed) or the task is cancelled ("cancelled");
\* the finally clause discards uid in all three
ConsolidationFinish(k, outcome) ==
    /\ tasks[k].kind = "consolidation"
    /\ tasks[k].pc = "running"
    /\ outcome \in {"ok", "error", "cancelled"}
    /\ _summarization_running' = _summarization_running \ {tasks[k].uid}
    /\ tasks' = [tasks EXCEPT ![k] = NoTask]
    /\ last_done' = [kind |-> "consolidation", uid |-> tasks[k].uid, outcome |-> outcome]
    /\ UNCHANGED <<dl, valves, _user_memory_counters, turns>>

\* _run_retroactive_cleanup returns (also through its outer except clause,
\* which swallows every Exception): the task is finished and leaves the loop
CleanupDone(k) ==
    /\ tasks' = [tasks EXCEPT ![k] = NoTask]
    /\ last_done' = [kind |-> "cleanup", uid |-> tasks[k].uid, outcome |-> "ok"]

RECURSIVE NextInBatch(_, _, _)
\* `for mid in ids_to_delete: if mid in valid_batch_ids` from index j: the
\* next index whose id is in the batch, 0 if there is none
NextInBatch(ids_to_delete, valid_batch_ids, j) ==
    IF j > Len(ids_to_delete) THEN 0
    ELSE IF \E i \in 1..Len(valid_batch_ids) : valid_batch_ids[i] = ids_to_delete[j]
    THEN j
    ELSE NextInBatch(ids_to_delete, valid_batch_ids, j + 1)

\* the deletion loop from index j, up to its next await or to the return
CleanupLoopFrom(k, fr, j) ==
    LET n == NextInBatch(fr.ids_to_delete, fr.valid_batch_ids, j)
    IN  IF n = 0 THEN CleanupDone(k)
        ELSE /\ tasks' = [tasks EXCEPT ![k].pc = "delete",
                                       ![k].frame = [fr EXCEPT
                                           !.del_i = n,
                                           !.log = Append(@, <<"delete", fr.ids_to_delete[n]>>)]]
             /\ UNCHANGED last_done

\* mutant: the batch size is not checked
CleanupStart_NoBatchCheck(k) ==
    /\ tasks[k].kind = "cleanup"
    /\ tasks[k].pc = "scheduled"
    /\ tasks' = [tasks EXCEPT ![k].pc = "query",
                              ![k].frame = [NoFrame EXCEPT
                                  !.batch_size = valves.cleanup_batch_size,
                                  !.log = <<<<"query">>>>]]
    /\ UNCHANGED <<dl, valves, _user_memory_counters, _summarization_running, last_done, turns>>

\* _run_retroactive_cleanup up to its first await (query_memory), or to its
\* return when the batch size is not positive
CleanupStart(k) ==
    /\ tasks[k].kind = "cleanup"
    /\ tasks[k].pc = "scheduled"
    /\ LET batch_size == valves.cleanup_batch_size
       IN  IF batch_size <= 0
           THEN CleanupDone(k)
           ELSE /\ tasks' = [tasks EXCEPT ![k].pc = "query",
                                          ![k].frame = [NoFrame EXCEPT
                                              !.batch_size = batch_size,
                                              !.log = <<<<"query">>>>]]
                /\ UNCHANGED last_done
    /\ UNCHANGED <<dl, valves, _user_memory_counters, _summarization_running, turns>>

\* query_memory(content=" ", k=batch_size) returns `result` (at most
\* batch_size rows) or raises; with rows the model is asked to audit them
CleanupQueryReturn(k, result) ==
    /\ tasks[k].kind = "cleanup"
    /\ tasks[k].pc = "query"
    /\ Len(result.rows) <= tasks[k].frame.batch_size
    /\ IF result.kind # "rows" \/ result.rows = << >>
       THEN CleanupDone(k)
       ELSE /\ tasks' = [tasks EXCEPT ![k].pc = "audit",
                                      ![k].frame = [@ EXCEPT
                                          !.valid_batch_ids =
                                              [i \in 1..Len(result.rows) |-> result.rows[i].id],
                                          !.log = Append(@, <<"llm">>)]]
            /\ UNCHANGED last_done
    /\ UNCHANGED <<dl, valves, _user_memory_counters, _summarization_running, turns>>

\* mutant: the ids the model returns are deleted without the membership test
CleanupAuditReturn_NoBatchTest(k, ids_to_delete) ==
    /\ tasks[k].kind = "cleanup"
    /\ tasks[k].pc = "audit"
    /\ IF ids_to_delete = << >>
       THEN CleanupDone(k)
       ELSE /\ tasks' = [tasks EXCEPT ![k].pc = "delete",
                                      ![k].frame = [@ EXCEPT
                                          !.ids_to_delete = ids_to_delete,
                                          !.del_i = 1,
                                          !.log = Append(@, <<"delete", ids_to_delete[1]>>)]]
            /\ UNCHANGED last_done
    /\ UNCHANGED <<dl, valves, _user_memory_counters, _summarization_running, turns>>

\* _call_llm_json(MEMORY_CLEANUP_PROMPT, ...) returns `ids_to_delete` ([] when
\* it failed); the deletion loop starts
CleanupAuditReturn(k, ids_to_delete) ==
    /\ tasks[k].kind = "cleanup"
    /\ tasks[k].pc = "audit"
    /\ CleanupLoopFrom(k, [tasks[k].frame EXCEPT !.ids_to_delete = ids_to_delete], 1)
    /\ UNCHANGED <<dl, valves, _user_memory_counters, _summarization_running, turns>>

\* delete_memory_by_id(ids_to_delete[del_i]) returns (ok) or raises, for
\* instance because the id is already gone; the loop goes on either way
CleanupDeleteReturn(k, ok) ==
    /\ tasks[k].kind = "cleanup"
    /\ tasks[k].pc = "delete"
    /\ LET fr == tasks[k].frame
       IN  CleanupLoopFrom(k, IF ok THEN [fr EXCEPT !.deleted_count = @ + 1] ELSE fr,
                           fr.del_i + 1)
    /\ UNCHANGED <<dl, valves, _user_memory_counters, _summarization_running, turns>>

\* ------------------------------------------------------ per-turn pipeline

RECURSIVE NextStr(_, _)
\* the next index >= j of a str in the list, 0 if there is none
NextStr(facts, j) ==
    IF j > Len(facts) THEN 0
    ELSE IF facts[j] # NonStr THEN j
    ELSE NextStr(facts, j + 1)

\* outlet returns: the coroutine's locals are gone, what stays to be seen is
\* the memory_result it reported and the two counts behind it
Returned(tr, status, message) ==
    [IdleTurn EXCEPT !.pc = "done", !.uid = tr.uid, !.body = tr.body,
                     !.status = status, !.message = message,
                     !.saved_count = tr.saved_count,
                     !.updated_count = tr.updated_count,
                     !.added_new = tr.added_new, !.added_upd = tr.added_upd,
                     !.errors = tr.errors, !.decided = tr.decided]

\* the end of _process_memory: the message built from the two counts
Finish(tr) ==
    LET msg_parts ==
            (IF tr.saved_count # 0 THEN <<<<"saved", tr.saved_count>>>> ELSE << >>)
            \o (IF tr.updated_count # 0 THEN <<<<"updated", tr.updated_count>>>> ELSE << >>)
    IN  Returned(tr, "success",
                 IF msg_parts # << >> THEN msg_parts ELSE <<<<"nothing to remember">>>>)

\* `for fact in new_facts` from index j: skips what is no str, and stops at the
\* first await of the body (query_memory) or at the end of the loop
LoopFrom(tr, j) ==
    LET n == NextStr(tr.new_facts, j)
        fresh == [f \in DOMAIN tr |-> IF f \in DOMAIN FactLocals THEN FactLocals[f] ELSE tr[f]]
    IN  IF n = 0 THEN Finish(tr)
        ELSE [fresh EXCEPT !.fact_i = n, !.pc = "query", !.log = <<<<"query">>>>]

\* mutant: a skipped fact is counted as saved
Decide_SkipCounted(tr, dec) ==
    LET tr1 == [tr EXCEPT !.action = dec.action, !.target_ids = dec.target_ids]
    IN  IF dec.action = "skip"
        THEN LoopFrom([tr1 EXCEPT !.saved_count = @ + 1], tr.fact_i + 1)
        ELSE IF dec.action = "update" /\ dec.target_ids # << >>
        THEN [tr1 EXCEPT !.pc = "delete", !.del_i = 1,
                         !.log = Append(@, <<"delete", dec.target_ids[1]>>)]
        ELSE [tr1 EXCEPT !.pc = "add", !.saved_count = @ + 1,
                         !.log = Append(@, <<"add">>)]

\* mutant: the first delete is issued together with the add, without being
\* awaited
Decide_DeleteNotAwaited(tr, dec) ==
    LET tr1 == [tr EXCEPT !.action = dec.action, !.target_ids = dec.target_ids]
    IN  IF dec.action = "skip" THEN LoopFrom(tr1, tr.fact_i + 1)
        ELSE IF dec.action = "update" /\ dec.target_ids # << >>
        THEN [tr1 EXCEPT !.pc = "add", !.updated_count = @ + 1,
                         !.log = @ \o <<<<"delete", dec.target_ids[1]>>, <<"add">>>>]
        ELSE [tr1 EXCEPT !.pc = "add", !.saved_count = @ + 1,
                         !.log = Append(@, <<"add">>)]

\* mutant: an update saves the new fact without deleting what it supersedes
Decide_NoDelete(tr, dec) ==
    LET tr1 == [tr EXCEPT !.action = dec.action, !.target_ids = dec.target_ids]
    IN  IF dec.action = "skip" THEN LoopFrom(tr1, tr.fact_i + 1)
        ELSE IF dec.action = "update" /\ dec.target_ids # << >>
        THEN [tr1 EXCEPT !.pc = "add", !.updated_count = @ + 1,
                         !.log = Append(@, <<"add">>)]
        ELSE [tr1 EXCEPT !.pc = "add", !.saved_count = @ + 1,
                         !.log = Append(@, <<"add">>)]

\* what the loop body does with the classifier's answer, up to its next await
Decide(tr, dec) ==
    LET tr1 == [tr EXCEPT !.action = dec.action, !.target_ids = dec.target_ids]
    IN  IF dec.action = "skip" THEN LoopFrom(tr1, tr.fact_i + 1)
        ELSE IF dec.action = "update" /\ dec.target_ids # << >>
        THEN [tr1 EXCEPT !.pc = "delete", !.del_i = 1,
                         !.log = Append(@, <<"delete", dec.target_ids[1]>>)]
        ELSE [tr1 EXCEPT !.pc = "add", !.saved_count = @ + 1,
                         !.log = Append(@, <<"add">>)]

\* mutant: the cleanup branch falls through into the pipeline
Outlet_CleanupThenPipeline(t, uid, messages, enable_retroactive_cleanup) ==
    /\ turns[t].pc = "idle"
    /\ \A s \in 1..(t - 1) : turns[s].pc # "idle"
    /\ LET tr == [turns[t] EXCEPT !.uid = uid, !.body = messages]
           context_str == _build_context_string(messages)
       IN  IF ~valves.enabled \/ Len(messages) < 2
           THEN /\ turns' = [turns EXCEPT ![t] = Returned(tr, "none", << >>)]
                /\ UNCHANGED tasks
           ELSE /\ IF enable_retroactive_cleanup
                   THEN create_task("cleanup", uid)
                   ELSE UNCHANGED tasks
                /\ turns' = [turns EXCEPT ![t] =
                       IF context_str = << >>
                       THEN Returned(tr, "skipped", <<<<"no context">>>>)
                       ELSE [tr EXCEPT !.pc = "extract", !.context = context_str]]
    /\ UNCHANGED <<dl, valves, _user_memory_counters, _summarization_running, last_done>>

\* outlet up to its first await.  `messages` is body["messages"];
\* every failure of a call awaited inside _process_memory is taken by a
\* handler of its own (lines 283, 358, 384, 443), so no step below enters the
\* except clause of outlet (lines 167-172).
\* `enable_retroactive_cleanup` is what the valve reads at this call (the
\* administrator may switch it between any two turns).
Outlet(t, uid, messages, enable_retroactive_cleanup) ==
    /\ turns[t].pc = "idle"
    /\ \A s \in 1..(t - 1) : turns[s].pc # "idle"
    /\ LET tr == [turns[t] EXCEPT !.uid = uid, !.body = messages]
       IN  IF ~valves.enabled \/ Len(messages) < 2
           THEN /\ turns' = [turns EXCEPT ![t] = Returned(tr, "none", << >>)]
                /\ UNCHANGED tasks
           ELSE IF enable_retroactive_cleanup
           THEN /\ create_task("cleanup", uid)
                /\ turns' = [turns EXCEPT ![t] =
                       Returned(tr, "success", <<<<"cleanup started">>>>)]
           ELSE /\ UNCHANGED tasks
                /\ LET context_str == _build_context_string(messages)
                   IN  turns' = [turns EXCEPT ![t] =
                           IF context_str = << >>
                           THEN Returned(tr, "skipped", <<<<"no context">>>>)
                           ELSE [tr EXCEPT !.pc = "extract", !.context = context_str]]
    /\ UNCHANGED <<dl, valves, _user_memory_counters, _summarization_running, last_done>>

\* _call_llm_json(FACT_EXTRACTION_PROMPT, ...) returns `facts` ([] when it failed)
ExtractReturn(t, facts) ==
    /\ turns[t].pc = "extract"
    /\ turns' = [turns EXCEPT ![t] =
           IF facts = << >>
           THEN Returned(turns[t], "success", <<<<"no new facts">>>>)
           ELSE LoopFrom([turns[t] EXCEPT !.new_facts = facts], 1)]
    /\ UNCHANGED <<dl, valves, _user_memory_counters, _summarization_running, tasks, last_done>>

\* query_memory returns `result`: _query_similar_memories filters it, and
\* _analyze_relationship either answers at once or awaits the model
QueryReturn(t, result) ==
    /\ turns[t].pc = "query"
    /\ LET similar_memories == _query_similar_memories(result, valves.consolidation_threshold)
           tr == [turns[t] EXCEPT !.result = result, !.similar_memories = similar_memories,
                                  !.errors = IF result.kind = "raises"
                                             THEN @ \cup {<<"query", turns[t].fact_i>>} ELSE @]
           dec == _analyze_relationship(similar_memories, PendingReply)
       IN  turns' = [turns EXCEPT ![t] =
               IF dec.llm_calls = 0 THEN Decide(tr, dec)
               ELSE [tr EXCEPT !.pc = "classify", !.log = Append(@, <<"llm">>)]]
    /\ UNCHANGED <<dl, valves, _user_memory_counters, _summarization_running, tasks, last_done>>

\* _call_llm of _analyze_relationship returns `reply`
ClassifyReturn(t, reply) ==
    /\ turns[t].pc = "classify"
    /\ LET dec == _analyze_relationship(turns[t].similar_memories, reply)
           tr  == [turns[t] EXCEPT !.decided = [reply |-> reply, action |-> dec.action],
                                   !.errors = IF reply.raises
                                              THEN @ \cup {<<"classify", turns[t].fact_i>>} ELSE @]
       IN  turns' = [turns EXCEPT ![t] = Decide(tr, dec)]
    /\ UNCHANGED <<dl, valves, _user_memory_counters, _summarization_running, tasks, last_done>>

\* mutant: the loop body has no try, a failing delete leaves _process_memory
\* and ends the turn in the except clause of outlet
DeleteReturn_NoTry(t, ok) ==
    /\ turns[t].pc = "delete"
    /\ LET tr == turns[t]
       IN  turns' = [turns EXCEPT ![t] =
               IF ~ok
               THEN Returned([tr EXCEPT !.errors = @ \cup {<<"delete", tr.fact_i>>}],
                             "error", <<<<"processing error">>>>)
               ELSE IF tr.del_i < Len(tr.target_ids)
               THEN [tr EXCEPT !.del_i = @ + 1,
                               !.log = Append(@, <<"delete", tr.target_ids[tr.del_i + 1]>>)]
               ELSE [tr EXCEPT !.pc = "add", !.updated_count = @ + 1,
                               !.log = Append(@, <<"add">>)]]
    /\ UNCHANGED <<dl, valves, _user_memory_counters, _summarization_running, tasks, last_done>>

\* mutant: neither _process_memory nor outlet has a try, a failing delete
\* leaves the handler as an exception
DeleteReturn_Propagates(t, ok) ==
    /\ turns[t].pc = "delete"
    /\ LET tr == turns[t]
       IN  turns' = [turns EXCEPT ![t] =
               IF ~ok
               THEN Returned([tr EXCEPT !.errors = @ \cup {<<"delete", tr.fact_i>>}],
                             "raised", << >>)
               ELSE IF tr.del_i < Len(tr.target_ids)
               THEN [tr EXCEPT !.del_i = @ + 1,
                               !.log = Append(@, <<"delete", tr.target_ids[tr.del_i + 1]>>)]
               ELSE [tr EXCEPT !.pc = "add", !.updated_count = @ + 1,
                               !.log = Append(@, <<"add">>)]]
    /\ UNCHANGED <<dl, valves, _user_memory_counters, _summarization_running, tasks, last_done>>

\* delete_memory_by_id(target_ids[del_i]) returns (ok) or raises, for
\* instance because the id is already gone; the except clause of the loop
\* body goes on with the next fact
DeleteReturn(t, ok) ==
    /\ turns[t].pc = "delete"
    /\ LET tr == turns[t]
       IN  turns' = [turns EXCEPT ![t] =
               IF ~ok
               THEN LoopFrom([tr EXCEPT !.errors = @ \cup {<<"delete", tr.fact_i>>}], tr.fact_i + 1)
               ELSE IF tr.del_i < Len(tr.target_ids)
               THEN [tr EXCEPT !.del_i = @ + 1,
                               !.log = Append(@, <<"delete", tr.target_ids[tr.del_i + 1]>>)]
               ELSE [tr EXCEPT !.pc = "add", !.updated_count = @ + 1,
                               !.log = Append(@, <<"add">>)]]
    /\ UNCHANGED <<dl, valves, _user_memory_counters, _summarization_running, tasks, last_done>>

\* mutant: the loop body has no try, a failing add leaves _process_memory and
\* ends the turn in the except clause of outlet
AddReturn_NoTry(t, ok) ==
    /\ turns[t].pc = "add"
    /\ LET tr == turns[t]
       IN  IF ok
           THEN /\ _increment_counter_and_trigger_summary(tr.uid)
                /\ turns' = [turns EXCEPT ![t] =
                       LoopFrom(IF tr.action = "update"
                                THEN [tr EXCEPT !.added_upd = @ + 1]
                                ELSE [tr EXCEPT !.added_new = @ + 1],
                                tr.fact_i + 1)]
           ELSE /\ turns' = [turns EXCEPT ![t] =
                       Returned([tr EXCEPT !.errors = @ \cup {<<"add", tr.fact_i>>}],
                                "error", <<<<"processing error">>>>)]
                /\ UNCHANGED <<_user_memory_counters, tasks>>
    /\ UNCHANGED <<dl, valves, _summarization_running, last_done>>

\* mutant: the trigger runs after the loop body's try, whether the add
\* succeeded or raised
AddReturn_CountsFailures(t, ok) ==
    /\ turns[t].pc = "add"
    /\ LET tr == turns[t]
       IN  /\ _increment_counter_and_trigger_summary(tr.uid)
           /\ turns' = [turns EXCEPT ![t] =
                  IF ok
                  THEN LoopFrom(IF tr.action = "update"
                                THEN [tr EXCEPT !.added_upd = @ + 1]
                                ELSE [tr EXCEPT !.added_new = @ + 1],
                                tr.fact_i + 1)
                  ELSE LoopFrom([tr EXCEPT !.errors = @ \cup {<<"add", tr.fact_i>>}],
                                tr.fact_i + 1)]
    /\ UNCHANGED <<dl, valves, _summarization_running, last_done>>

\* add_memory of _save_memory_native returns (ok) or raises; after a
\* successful save the trigger runs in the same step, after a failed one the
\* except clause of the loop body goes on with the next fact
AddReturn(t, ok) ==
    /\ turns[t].pc = "add"
    /\ LET tr == turns[t]
       IN  IF ok
           THEN /\ _increment_counter_and_trigger_summary(tr.uid)
                /\ turns' = [turns EXCEPT ![t] =
                       LoopFrom(IF tr.action = "update"
                                THEN [tr EXCEPT !.added_upd = @ + 1]
                                ELSE [tr EXCEPT !.added_new = @ + 1],
                                tr.fact_i + 1)]
           ELSE /\ turns' = [turns EXCEPT ![t] =
                       LoopFrom([tr EXCEPT !.errors = @ \cup {<<"add", tr.fact_i>>}], tr.fact_i + 1)]
                /\ UNCHANGED <<_user_memory_counters, tasks>>
    /\ UNCHANGED <<dl, valves, _summarization_running, last_done>>

\* ------------------------------------------------------- specifications

\* Spec: two turns side by side, with the detached tasks.  The store answers
\* every query with no ids, so each fact goes from the retrieval straight to
\* the save; the classifier and the deletes, which touch neither the counters
\* nor the in-flight set nor the tasks, are exercised by RetrievalSpec.
SpecMessages == {<<Msg("assistant", "a0"), Msg("user", "q0")>>}
SpecFacts    == SeqsUpTo({"f"}, MaxFacts)
SpecResults  == {QueryNoIds}

Init ==
    /\ valves \in [enabled : {TRUE},
                   summarize_after_n_memories : 1..MaxN,
                   consolidation_threshold : {DefaultThreshold},
                   cleanup_batch_size : {DefaultBatchSize}]
    /\ _user_memory_counters = [u \in Users |-> 0]
    /\ _summarization_running = {}
    /\ tasks = [k \in TaskIds |-> NoTask]
    /\ last_done = NoneDone
    /\ dl = NoDownload
    /\ turns = [t \in Turns |-> IdleTurn]

TaskNext ==
    \/ \E k \in TaskIds : ConsolidationStart(k)
    \/ \E k \in TaskIds, o \in {"ok", "error", "cancelled"} : ConsolidationFinish(k, o)
    \/ \E k \in TaskIds : CleanupStart(k)
    \/ \E k \in TaskIds, r \in SpecResults : CleanupQueryReturn(k, r)

TurnNext(t) ==
    \/ \E u \in Users, m \in SpecMessages, c \in BOOLEAN : Outlet(t, u, m, c)
    \/ \E f \in SpecFacts : ExtractReturn(t, f)
    \/ \E r \in SpecResults : QueryReturn(t, r)
    \/ \E ok \in BOOLEAN : AddReturn(t, ok)

Next == (\E t \in Turns : TurnNext(t)) \/ TaskNext

Spec == Init /\ [][Next]_vars

\* the event loop runs every task that is ready, and the sleep of a running
\* consolidation task ends: each task's start and finish steps are fair
TaskFairness ==
    \A k \in TaskIds :
        /\ WF_vars(ConsolidationStart(k))
        /\ WF_vars(\E o \in {"ok", "error", "cancelled"} : ConsolidationFinish(k, o))
        /\ WF_vars(CleanupStart(k))
        /\ WF_vars(\E r \in SpecResults : CleanupQueryReturn(k, r))

\* FairSpec: one turn and the tasks it creates, under that fairness
FairNext == TurnNext(1) \/ TaskNext

FairSpec == Init /\ [][FairNext]_vars /\ TaskFairness

\* RetrievalSpec: one fact of one turn, from the await of query_memory to the
\* end of the turn, over the whole range of what the store and the model may
\* answer.
Distances      == {20, 25, 30}
Thresholds     == {70, DefaultThreshold}
AllCandidates  == {Candidate(i, d, x) : i \in MemIds, d \in Docs, x \in Distances}
RetrievalResults ==
    {QueryRaises, QueryNoIds} \cup {QueryRows(r) : r \in SeqsUpTo(AllCandidates, MaxCand)}
RetrievalReplies ==
    {LlmRaises} \cup
    {LlmText(w) : w \in {<<"duplicate">>, <<"update">>, <<"new">>, <<"UPDATE">>,
                         <<"Update", "duplicate">>, <<"ok">>}}

RetrievalInit ==
    /\ valves \in [enabled : {TRUE},
                   summarize_after_n_memories : 1..MaxN,
                   consolidation_threshold : Thresholds,
                   cleanup_batch_size : {DefaultBatchSize}]
    /\ _user_memory_counters = [u \in Users |-> 0]
    /\ _summarization_running = {}
    /\ tasks = [k \in TaskIds |-> NoTask]
    /\ last_done = NoneDone
    /\ dl = NoDownload
    /\ \E u \in Users :
           turns = [t \in Turns |->
                       IF t = 1
                       THEN LoopFrom([IdleTurn EXCEPT
                                         !.uid = u, !.pc = "extract",
                                         !.context = _build_context_string(
                                             <<Msg("assistant", "a0"), Msg("user", "q0")>>),
                                         !.new_facts = <<"f">>], 1)
                       ELSE IdleTurn]

RetrievalNext ==
    \/ \E r \in RetrievalResults : QueryReturn(1, r)
    \/ \E r \in RetrievalReplies : ClassifyReturn(1, r)
    \/ \E ok \in BOOLEAN : DeleteReturn(1, ok)
    \/ \E ok \in BOOLEAN : AddReturn(1, ok)

RetrievalSpec == RetrievalInit /\ [][RetrievalNext]_vars

\* PipelineSpec: one turn from the call of outlet to its return, in either
\* mode, with the audit task it creates in cleanup mode, over the message
\* lists, the fact lists, the store's answers and the model's replies, each
\* call of the store or the model failing or not.
PipelineMessages ==
    {<<Msg("assistant", "a0"), Msg("user", "q0")>>,
     <<Msg("user", "q0"), Msg("assistant", "a0")>>,
     <<Msg("system", "s0"), Msg("assistant", "a0")>>,
     <<Msg("user", "q0")>>}
PipelineFacts      == SeqsUpTo({"f", NonStr}, MaxFacts)
PipelineCandidates == {Candidate(i, "a", 20) : i \in MemIds} \cup {Candidate("m1", "b", 30)}
PipelineResults ==
    {QueryRaises, QueryNoIds} \cup {QueryRows(r) : r \in SeqsUpTo(PipelineCandidates, MaxCand)}
PipelineReplies ==
    {LlmRaises} \cup
    {LlmText(w) : w \in {<<"duplicate">>, <<"update">>, <<"new">>, <<"update", "Duplicate">>}}

\* what the audit task may read: the batch size, the batch the store gives,
\* the ids the model returns
BatchSizes   == {-1, 0, 1, DefaultBatchSize}
AuditIds     == MemIds \cup {"m9"}         \* m9 is in no batch
AuditBatches ==
    {QueryRaises, QueryNoIds}
    \cup {QueryRows(r) : r \in SeqsUpTo({Candidate(i, "a", 20) : i \in MemIds}, MaxCand)}
AuditReplies == SeqsUpTo(AuditIds, MaxCand)

PipelineInit ==
    /\ valves \in [enabled : BOOLEAN,
                   summarize_after_n_memories : {MaxN},
                   consolidation_threshold : {DefaultThreshold},
                   cleanup_batch_size : {DefaultBatchSize}]
    /\ _user_memory_counters = [u \in Users |-> 0]
    /\ _summarization_running = {}
    /\ tasks = [k \in TaskIds |-> NoTask]
    /\ last_done = NoneDone
    /\ dl = NoDownload
    /\ turns = [t \in Turns |-> IdleTurn]

PipelineNext ==
    \/ \E u \in Users, m \in PipelineMessages, c \in BOOLEAN : Outlet(1, u, m, c)
    \/ \E f \in PipelineFacts : ExtractReturn(1, f)
    \/ \E r \in PipelineResults : QueryReturn(1, r)
    \/ \E r \in PipelineReplies : ClassifyReturn(1, r)
    \/ \E ok \in BOOLEAN : DeleteReturn(1, ok)
    \/ \E ok \in BOOLEAN : AddReturn(1, ok)
    \/ \E k \in TaskIds : CleanupStart(k)
    \/ \E k \in TaskIds, r \in AuditBatches : CleanupQueryReturn(k, r)
    \/ \E k \in TaskIds, ids \in AuditReplies : CleanupAuditReturn(k, ids)
    \/ \E k \in TaskIds, ok \in BOOLEAN : CleanupDeleteReturn(k, ok)

PipelineSpec == PipelineInit /\ [][PipelineNext]_vars

\* AuditSpec: one turn in cleanup mode and the audit task it creates, over the
\* batch sizes, the store's answers and the ids the model returns.

AuditInit ==
    /\ valves \in [enabled : {TRUE},
                   summarize_after_n_memories : {MaxN},
                   consolidation_threshold : {DefaultThreshold},
                   cleanup_batch_size : BatchSizes]
    /\ _user_memory_counters = [u \in Users |-> 0]
    /\ _summarization_running = {}
    /\ tasks = [k \in TaskIds |-> NoTask]
    /\ last_done = NoneDone
    /\ dl = NoDownload
    /\ turns = [t \in Turns |-> IdleTurn]

AuditNext ==
    \/ \E u \in Users, m \in SpecMessages : Outlet(1, u, m, TRUE)
    \/ \E k \in TaskIds : CleanupStart(k)
    \/ \E k \in TaskIds, r \in AuditBatches : CleanupQueryReturn(k, r)
    \/ \E k \in TaskIds, ids \in AuditReplies : CleanupAuditReturn(k, ids)
    \/ \E k \in TaskIds, ok \in BOOLEAN : CleanupDeleteReturn(k, ok)

AuditSpec == AuditInit /\ [][AuditNext]_vars

\* the trigger with another user's consolidation in flight from the start.
\* Init is the state after u2's N-th fact was saved and the task created for
\* it (line 397) ran up to its sleep (lines 402-404); the turn that follows
\* is handled in the pipeline mode.
TriggerInit ==
    /\ valves \in [enabled : {TRUE},
                   summarize_after_n_memories : 1..MaxN,
                   consolidation_threshold : {DefaultThreshold},
                   cleanup_batch_size : {DefaultBatchSize}]
    /\ _user_memory_counters = [u \in Users |-> 0]
    /\ _summarization_running = {"u2"}
    /\ tasks = [k \in TaskIds |->
                   IF k = 1
                   THEN [NoTask EXCEPT !.kind = "consolidation", !.uid = "u2",
                                       !.pc = "running"]
                   ELSE NoTask]
    /\ last_done = NoneDone
    /\ dl = NoDownload
    /\ turns = [t \in Turns |-> IdleTurn]

TriggerNext ==
    \/ \E u \in Users, m \in SpecMessages : Outlet(1, u, m, FALSE)
    \/ \E f \in SpecFacts : ExtractReturn(1, f)
    \/ \E r \in SpecResults : QueryReturn(1, r)
    \/ \E ok \in BOOLEAN : AddReturn(1, ok)
    \/ \E k \in TaskIds : ConsolidationStart(k)
    \/ \E k \in TaskIds, o \in {"ok", "error", "cancelled"} : ConsolidationFinish(k, o)

TriggerSpec == TriggerInit /\ [][TriggerNext]_vars

\* ContextSpec: one turn in the pipeline mode over every list of up to
\* MaxMsgs messages, each of any role, the message at place i carrying the
\* content Contents[i].
Roles    == {"user", "assistant", "system"}
Contents == <<"c1", "c2", "c3", "c4">>
ContextMessages ==
    UNION {{[i \in 1..n |-> Msg(r[i], Contents[i])] : r \in [1..n -> Roles]} : n \in 0..MaxMsgs}

ContextInit ==
    /\ valves \in [enabled : {TRUE},
                   summarize_after_n_memories : {MaxN},
                   consolidation_threshold : {DefaultThreshold},
                   cleanup_batch_size : {DefaultBatchSize}]
    /\ _user_memory_counters = [u \in Users |-> 0]
    /\ _summarization_running = {}
    /\ tasks = [k \in TaskIds |-> NoTask]
    /\ last_done = NoneDone
    /\ dl = NoDownload
    /\ turns = [t \in Turns |-> IdleTurn]

ContextNext ==
    \/ \E u \in Users, m \in ContextMessages : Outlet(1, u, m, FALSE)
    \/ \E f \in SpecFacts : ExtractReturn(1, f)
    \/ \E r \in SpecResults : QueryReturn(1, r)
    \/ \E ok \in BOOLEAN : AddReturn(1, ok)

ContextSpec == ContextInit /\ [][ContextNext]_vars

\* ------------------------------------------------- bin/pexels-dw.py

\* A link is https://<host>/<name><query>; <name> is the last segment of its
\* path ("" when the path ends with a slash).  In the text a link may be
\* followed at once by punctuation (tail), which URL_RE matches with it.
Hosts   == {"a.example", "b.example"}
Names   == {"", "v.mp4"}
Queries == {"", "?k=1"}
Tails   == {"", "."}
Urls    == [host : Hosts, name : Names, query : Queries]
NoUrl   == [host |-> "", name |-> "", query |-> ""]

\* the tokens of the text: what URL_RE matches, and words it does not match
Tokens ==
    [kind : {"url"}, url : Urls, tail : Tails]
    \cup {[kind |-> "word", url |-> NoUrl, tail |-> ""]}

\* URL_RE.findall(text), the matches that start with https://
URL_RE(text) == {text[i] : i \in {j \in 1..Len(text) : text[j].kind = "url"}}

\* u.rstrip(".,);]\"'")
rstrip(m) == m.url

\* the order of str on the links: host, then name, then query ("/" < "/v",
\* and a string is smaller than every string it is a proper prefix of)
HostRank(h)  == IF h = "a.example" THEN 1 ELSE 2
NameRank(n)  == IF n = "" THEN 0 ELSE 1
QueryRank(q) == IF q = "" THEN 0 ELSE 1
UrlLess(u, v) ==
    \/ HostRank(u.host) < HostRank(v.host)
    \/ /\ u.host = v.host
       /\ \/ NameRank(u.name) < NameRank(v.name)
          \/ /\ u.name = v.name
             /\ QueryRank(u.query) < QueryRank(v.query)

\* sorted(S)
RECURSIVE sorted(_)
sorted(S) ==
    IF S = {} THEN << >>
    ELSE LET least == CHOOSE u \in S : \A v \in S \ {u} : UrlLess(u, v)
         IN  <<least>> \o sorted(S \ {least})

\* extract_urls(text): the matches of the JSON strings are matches of the raw
\* text as well, so `urls` is the set of the raw text's matches
extract_urls(text) ==
    LET urls == URL_RE(text)
        cleaned == {rstrip(m) : m \in urls}
    IN  sorted(cleaned)

\* lines 278-283 of main: keeps the first of equal elements, in list order
RECURSIVE Dedup(_, _, _)
Dedup(urls, i, ordered) ==
    IF i > Len(urls) THEN ordered
    ELSE IF \E j \in 1..Len(ordered) : ordered[j] = urls[i]
    THEN Dedup(urls, i + 1, ordered)
    ELSE Dedup(urls, i + 1, Append(ordered, urls[i]))

\* filename_from_url(url) at the clock reading `now` (milliseconds)
TimesMs == {1, 2}
filename_from_url(url, now) ==
    LET name == url.name           \* basename of the path, the query cut off
    IN  IF name = "" THEN <<"file_", now>> ELSE <<name>>

Filenames == {<<n>> : n \in Names \ {""}} \cup {<<"file_", now>> : now \in TimesMs}

NoFile   == [exists |-> FALSE, size |-> 0, writers |-> {}]
\* a task of the pool; `seen` remembers whose bytes the resume check measured
QueuedWorker ==
    [pc |-> "queued", target |-> << >>, attempt |-> 0, resume_from |-> 0, seen |-> {}]

\* main from the text read to the list of links (lines 270-294); returns 1
\* when the text is empty or holds no link.  Every element of extract_urls
\* starts with https://, so the filter of line 276 keeps them all.
main(text) ==
    /\ dl.pc = "read"
    /\ dl.text = text
    /\ LET urls == extract_urls(text)
           ordered == Dedup(urls, 1, << >>)
       IN  dl' = IF text = << >> \/ ordered = << >>
                 THEN [dl EXCEPT !.pc = "finished", !.code = 1]
                 ELSE [dl EXCEPT !.pc = "listed", !.ordered = ordered]
    /\ UNCHANGED <<valves, _user_memory_counters, _summarization_running, tasks,
                   last_done, turns>>

\* lines 297-298: aria2c is installed; its return code is main's
download_with_aria2(returncode) ==
    /\ dl.pc = "listed"
    /\ dl' = [dl EXCEPT !.pc = "finished", !.code = returncode, !.text = << >>]
    /\ UNCHANGED <<valves, _user_memory_counters, _summarization_running, tasks,
                   last_done, turns>>

\* lines 299-300 and 249-250: aria2c is not installed; ex.map submits one
\* task per link to the pool, the output directory is new and empty
download_with_python ==
    /\ dl.pc = "listed"
    /\ dl' = [dl EXCEPT !.pc = "python", !.text = << >>,
                        !.workers = [i \in 1..Len(dl.ordered) |-> QueuedWorker],
                        !.files = [f \in Filenames |-> NoFile]]
    /\ UNCHANGED <<valves, _user_memory_counters, _summarization_running, tasks,
                   last_done, turns>>

\* ExtractSpec: main over every text of up to MaxText tokens
Texts == SeqsUpTo(Tokens, MaxText)

FilterAtRest ==
    /\ valves = [enabled |-> TRUE, summarize_after_n_memories |-> MaxN,
                 consolidation_threshold |-> DefaultThreshold,
                 cleanup_batch_size |-> DefaultBatchSize]
    /\ _user_memory_counters = [u \in Users |-> 0]
    /\ _summarization_running = {}
    /\ tasks = [k \in TaskIds |-> NoTask]
    /\ last_done = NoneDone
    /\ turns = [t \in Turns |-> IdleTurn]

ExtractInit ==
    /\ FilterAtRest
    /\ \E text \in Texts : dl = [NoDownload EXCEPT !.pc = "read", !.text = text]

ExtractNext ==
    \/ \E text \in Texts : main(text)
    \/ \E returncode \in {0, 1} : download_with_aria2(returncode)
    \/ download_with_python

ExtractSpec == ExtractInit /\ [][ExtractNext]_vars

\* DownloadSpec: download_with_python over every list main can hand to it, a
\* sorted list of up to MaxUrls distinct links.  The threads of the pool run
\* side by side; one step is one system call or one request of http_download.

Running == {i \in DOMAIN dl.workers : dl.workers[i].pc \in {"stat", "open", "copy"}}

\* a thread of the pool takes the next task of the queue: http_download up
\* to its loop, target = outdir / filename_from_url(url)
task(i, now) ==
    /\ dl.pc = "python"
    /\ i \in DOMAIN dl.workers
    /\ dl.workers[i].pc = "queued"
    /\ \A j \in 1..(i - 1) : dl.workers[j].pc # "queued"
    /\ Cardinality(Running) < MaxWorkers
    /\ dl' = [dl EXCEPT !.workers[i] =
                 [@ EXCEPT !.pc = "stat",
                           !.target = filename_from_url(dl.ordered[i], now)]]
    /\ UNCHANGED <<valves, _user_memory_counters, _summarization_running, tasks,
                   last_done, turns>>

\* the except clause of the loop: the next attempt, or ok = False after the
\* last one
Retry(w) ==
    IF w.attempt < Retries THEN [w EXCEPT !.pc = "stat"] ELSE [w EXCEPT !.pc = "failed"]

\* lines 167-174: attempt += 1, then the resume check measures the target
Stat(i) ==
    /\ dl.pc = "python"
    /\ i \in DOMAIN dl.workers
    /\ dl.workers[i].pc = "stat"
    /\ LET file == dl.files[dl.workers[i].target]
       IN  dl' = [dl EXCEPT !.workers[i] =
                     [@ EXCEPT !.pc = "open",
                               !.attempt = @ + 1,
                               !.resume_from = IF file.exists THEN file.size ELSE 0,
                               !.seen = IF file.exists /\ file.size > 0
                                        THEN file.writers ELSE {}]]
    /\ UNCHANGED <<valves, _user_memory_counters, _summarization_running, tasks,
                   last_done, turns>>

\* lines 176-186: the request returns `status` (206 only to a Range request)
\* or raises; then the target is opened, "ab" when resume_from > 0 and "wb"
\* (which empties it) otherwise; on 200 to a Range request the target is
\* unlinked and, when the second request returns (again), opened anew
Open(i, status, again) ==
    /\ dl.pc = "python"
    /\ i \in DOMAIN dl.workers
    /\ dl.workers[i].pc = "open"
    /\ status \in {"raises", "200", "206"}
    /\ status = "206" => dl.workers[i].resume_from > 0
    /\ LET w == dl.workers[i]
           file == dl.files[w.target]
           empty == [exists |-> TRUE, size |-> 0, writers |-> {}]
       IN  IF status = "raises"
           THEN dl' = [dl EXCEPT !.workers[i] = Retry(w)]
           ELSE IF w.resume_from > 0 /\ status = "200"
           THEN IF again
                THEN dl' = [dl EXCEPT !.workers[i] = [w EXCEPT !.pc = "copy", !.resume_from = 0],
                                      !.files[w.target] = empty]
                ELSE dl' = [dl EXCEPT !.workers[i] = Retry(w),
                                      !.files[w.target] = NoFile]
           ELSE dl' = [dl EXCEPT !.workers[i] = [w EXCEPT !.pc = "copy"],
                                 !.files[w.target] =
                                     IF w.resume_from > 0 /\ file.exists
                                     THEN file ELSE empty]
    /\ UNCHANGED <<valves, _user_memory_counters, _summarization_running, tasks,
                   last_done, turns>>

\* _stream_copy writes what it read to the open file and returns (ok) or a
\* read raises after a part was written; what is written to a file that was
\* unlinked meanwhile is lost
Copy(i, ok) ==
    /\ dl.pc = "python"
    /\ i \in DOMAIN dl.workers
    /\ dl.workers[i].pc = "copy"
    /\ LET w == dl.workers[i]
           file == dl.files[w.target]
       IN  dl' = [dl EXCEPT !.workers[i] = IF ok THEN [w EXCEPT !.pc = "ok"] ELSE Retry(w),
                            !.files[w.target] =
                                IF file.exists
                                THEN [file EXCEPT !.size = @ + 1, !.writers = @ \cup {i}]
                                ELSE file]
    /\ UNCHANGED <<valves, _user_memory_counters, _summarization_running, tasks,
                   last_done, turns>>

\* lines 253-257: every task has returned; 1 when one of them failed
Results ==
    /\ dl.pc = "python"
    /\ \A i \in DOMAIN dl.workers : dl.workers[i].pc \in {"ok", "failed"}
    /\ dl' = [dl EXCEPT !.pc = "finished",
                        !.code = IF \E i \in DOMAIN dl.workers : dl.workers[i].pc = "failed"
                                 THEN 1 ELSE 0]
    /\ UNCHANGED <<valves, _user_memory_counters, _summarization_running, tasks,
                   last_done, turns>>

\* the lists of one to MaxUrls distinct links, sorted
DownloadLists ==
    {sorted(S) : S \in {T \in SUBSET Urls : Cardinality(T) \in 1..MaxUrls}}

DownloadInit ==
    /\ FilterAtRest
    /\ \E ordered \in DownloadLists :
           dl = [NoDownload EXCEPT
                    !.pc = "python", !.ordered = ordered,
                    !.workers = [i \in 1..Len(ordered) |-> QueuedWorker],
                    !.files = [f \in Filenames |-> NoFile]]

DownloadNext ==
    \/ \E i \in 1..MaxUrls, now \in TimesMs : task(i, now)
    \/ \E i \in 1..MaxUrls : Stat(i)
    \/ \E i \in 1..MaxUrls, status \in {"raises", "200", "206"}, again \in BOOLEAN :
           Open(i, status, again)
    \/ \E i \in 1..MaxUrls, ok \in BOOLEAN : Copy(i, ok)
    \/ Results

DownloadSpec == DownloadInit /\ [][DownloadNext]_vars

\* ----------------------------------------------------------------- claims

N == valves.summarize_after_n_memories

\* the unfinished tasks of one kind for one user
Live(kind, u) == {k \in TaskIds : tasks[k].kind = kind /\ tasks[k].uid = u}

Started(kind, u) == {k \in Live(kind, u) : tasks[k].pc = "running"}

\* this step is turn t's successful add_memory, hence a call of the trigger
\* (every call changes the user's counter or creates a task)
OnFactSaved(t) ==
    /\ turns[t].pc = "add"
    /\ turns'[t] # turns[t]
    /\ <<_user_memory_counters, tasks>>' # <<_user_memory_counters, tasks>>

\* this step creates exactly one task, of this kind and for this user
SchedulesOne(kind, u) ==
    \E k \in TaskIds :
        /\ tasks[k].pc = "none"
        /\ tasks' = [tasks EXCEPT ![k] =
                         [NoTask EXCEPT !.kind = kind, !.uid = u, !.pc = "scheduled"]]

\* this step is the completion of a consolidation task of user u
Completes(u) ==
    \E k \in TaskIds :
        /\ tasks[k].kind = "consolidation" /\ tasks[k].uid = u /\ tasks[k].pc = "running"
        /\ tasks'[k].pc = "none"

\* C1: for every user at most one consolidation task is created and not yet
\* finished, in every reachable state.
C1_AtMostOneConsolidationTask ==
    \A u \in Users : Cardinality(Live("consolidation", u)) <= 1

\* C2: with no task in flight for U and the counter below N, a save that does
\* not reach N only increments the counter and schedules nothing, and the save
\* that reaches N schedules exactly one consolidation task for U and leaves
\* the counter at 0.
C2_NthSaveSchedulesOnce ==
    [][\A t \in Turns :
          LET u == turns[t].uid
          IN  (/\ OnFactSaved(t)
               /\ Live("consolidation", u) = {} /\ u \notin _summarization_running
               /\ _user_memory_counters[u] < N)
              => IF _user_memory_counters[u] + 1 < N
                 THEN /\ tasks' = tasks
                      /\ _user_memory_counters'[u] = _user_memory_counters[u] + 1
                 ELSE /\ SchedulesOne("consolidation", u)
                      /\ _user_memory_counters'[u] = 0]_vars

C2_Witness ==
    \E u \in Users :
        /\ N = 2
        /\ _user_memory_counters[u] = 0
        /\ Cardinality(Live("consolidation", u)) = 1
        /\ Started("consolidation", u) = {}
        /\ u \notin _summarization_running
        /\ last_done.uid # u

C4_StartedImpliesInFlight ==
    \A u \in Users : Started("consolidation", u) # {} => u \in _summarization_running

\* C5: every scheduled consolidation task eventually finishes, whatever the
\* outcome of its body, and once no consolidation task of U is left U is not
\* in the in-flight set, so U's scheduling is never wedged.
C5_TasksFinishAndRelease ==
    /\ \A k \in TaskIds : (tasks[k].kind = "consolidation") ~> (tasks[k].pc = "none")
    /\ [](\A u \in Users : Live("consolidation", u) = {} => u \notin _summarization_running)

C5_Witness ==
    \E u \in Users :
        /\ last_done.kind = "consolidation" /\ last_done.uid = u
        /\ last_done.outcome \in {"error", "cancelled"}
        /\ u \notin _summarization_running
        /\ \E k \in Live("consolidation", u) : tasks[k].pc = "scheduled"

\* C6 (as claimed): when a consolidation task of U completes, U's counter is 0
\* and U is not in the in-flight set.
C6_CompletionResetsState ==
    [][\A u \in Users :
          Completes(u) => /\ _user_memory_counters'[u] = 0
                          /\ u \notin _summarization_running']_vars

\* C6 (amended): when a consolidation task of U completes, U is removed from
\* the in-flight set and U's counter is left as it was.
C6_CompletionKeepsCounter ==
    [][\A u \in Users :
          Completes(u) => /\ _user_memory_counters' = _user_memory_counters
                          /\ u \notin _summarization_running']_vars

C6_Witness ==
    \E u \in Users :
        /\ last_done.kind = "consolidation" /\ last_done.uid = u
        /\ last_done.outcome = "error"
        /\ Live("consolidation", u) = {}
        /\ u \notin _summarization_running
        /\ _user_memory_counters[u] >= N

C8_AtMostOneAuditTask ==
    \A u \in Users :
        /\ Cardinality(Live("cleanup", u)) <= 1
        /\ ~(Live("cleanup", u) # {} /\ Live("consolidation", u) # {})

\* the turn is inside the loop body, past the retrieval of the current fact
PastQuery(t) == turns[t].pc \in {"classify", "delete", "add"}

\* C9: when the retriever gave no candidate for the current fact, the
\* classifier's answer is (new, []) and the model has not been called for it
\* (the turn goes straight on to the save).
C9_NoCandidatesNoModelCall ==
    \A t \in Turns :
        (PastQuery(t) /\ turns[t].similar_memories = << >>)
        => /\ turns[t].pc = "add"
           /\ turns[t].action = "new"
           /\ turns[t].target_ids = << >>
           /\ \A i \in 1..Len(turns[t].log) : turns[t].log[i] # <<"llm">>

C9_Witness ==
    \E t \in Turns :
        /\ turns[t].pc = "add"
        /\ turns[t].result.kind = "rows" /\ Len(turns[t].result.rows) = MaxCand
        /\ turns[t].similar_memories = << >>
        /\ turns[t].action = "new"

\* the positions of the rows whose similarity reaches the threshold
Kept(rows) ==
    {i \in 1..Len(rows) : 100 - rows[i].distance >= valves.consolidation_threshold}

\* the j-th of these positions, counted from the front
KeptAt(rows, j) ==
    CHOOSE i \in Kept(rows) : Cardinality({h \in Kept(rows) : h <= i}) = j

\* C10: the retriever returns exactly the store's rows with
\* 100 - distance >= threshold (a row exactly at the threshold included), each
\* with the id and text of its row, in the rows' order.
C10_RetrieverKeepsAtOrAboveThreshold ==
    \A t \in Turns :
        PastQuery(t) =>
            LET rows == turns[t].result.rows
                out  == turns[t].similar_memories
            IN  /\ Len(out) = Cardinality(Kept(rows))
                /\ \A j \in 1..Len(out) :
                       /\ out[j].id = rows[KeptAt(rows, j)].id
                       /\ out[j].content = rows[KeptAt(rows, j)].content
                       /\ out[j].similarity = 100 - rows[KeptAt(rows, j)].distance

C10_Witness ==
    \E t \in Turns :
        /\ PastQuery(t)
        /\ Len(turns[t].result.rows) = 2
        /\ 100 - turns[t].result.rows[1].distance < valves.consolidation_threshold
        /\ 100 - turns[t].result.rows[2].distance = valves.consolidation_threshold
        /\ Len(turns[t].similar_memories) = 1
        /\ turns[t].similar_memories[1].id = turns[t].result.rows[2].id

\* the store calls of kind c in a log, in the order they were issued
RECURSIVE CallsOf(_, _)
CallsOf(log, c) ==
    IF log = << >> THEN << >>
    ELSE (IF Head(log)[1] = c THEN <<Head(log)>> ELSE << >>) \o CallsOf(Tail(log), c)

\* C11: when the classifier answers update, target_ids is the list of the ids
\* of all candidates that passed the threshold filter, in their order, and by
\* the time the fact is added the pipeline has issued a delete for every one
\* of them, each of which returned.
C11_UpdateTargetsAllCandidates ==
    \A t \in Turns :
        LET tr == turns[t]
        IN  (tr.action = "update" /\ tr.pc \in {"delete", "add"}) =>
            /\ Len(tr.target_ids) = Cardinality(Kept(tr.result.rows))
            /\ \A i \in 1..Len(tr.target_ids) :
                   /\ tr.target_ids[i] = tr.result.rows[KeptAt(tr.result.rows, i)].id
                   /\ tr.target_ids[i] = tr.similar_memories[i].id
            /\ tr.pc = "add" =>
                   CallsOf(tr.log, "delete") =
                       [i \in 1..Len(tr.target_ids) |-> <<"delete", tr.target_ids[i]>>]

C11_Witness ==
    \E t \in Turns :
        /\ turns[t].pc = "add" /\ turns[t].action = "update"
        /\ Len(turns[t].target_ids) = 2
        /\ turns[t].target_ids[1] # turns[t].target_ids[2]
        /\ Len(turns[t].result.rows) = 2

\* this step is the return of the call of kind c that turn t awaits, and the
\* call raised
Raises(t, c) == <<c, turns[t].fact_i>> \in turns'[t].errors \ turns[t].errors

\* C12: for every fact, a failing store query gives an empty candidate list
\* and a failing classification call gives (new, []); in both cases the fact is
\* not dropped: it is counted as new and its add_memory is issued next, with
\* no delete before it.
C12_FailOpenToNew ==
    [][\A t \in Turns :
          (Raises(t, "query") \/ Raises(t, "classify"))
          => /\ Raises(t, "query") => turns'[t].similar_memories = << >>
             /\ turns'[t].pc = "add" /\ turns'[t].fact_i = turns[t].fact_i
             /\ turns'[t].action = "new" /\ turns'[t].target_ids = << >>
             /\ turns'[t].saved_count = turns[t].saved_count + 1
             /\ CallsOf(turns'[t].log, "delete") = << >>
             /\ CallsOf(turns'[t].log, "add") = <<<<"add">>>>]_vars

C12_Witness ==
    \E t \in Turns :
        /\ turns[t].pc = "add" /\ turns[t].fact_i = 2
        /\ turns[t].similar_memories # << >>
        /\ <<"query", 1>> \in turns[t].errors
        /\ <<"classify", 2>> \in turns[t].errors

\* this step is the return of turn t's add_memory, and the call succeeded
AddSucceeds(t) ==
    /\ turns[t].pc = "add"
    /\ turns'[t].added_new + turns'[t].added_upd
           = turns[t].added_new + turns[t].added_upd + 1

\* C13: in the store calls of one fact every delete precedes the single add,
\* and an update is added only after a delete of each superseded id; with one
\* fact and one candidate, when the delete and the add return, the turn ends
\* with that id deleted, the fact added, and the result 0 saved / 1 updated.
C13_DeletesBeforeAdd ==
    /\ [](\A t \in Turns :
             LET log == turns[t].log
             IN  /\ Len(CallsOf(log, "add")) <= 1
                 /\ \A i, j \in 1..Len(log) :
                        (log[i][1] = "add" /\ log[j][1] = "delete") => j < i
                 /\ (turns[t].pc = "add" /\ turns[t].action = "update")
                    => /\ Len(CallsOf(log, "delete")) = Len(turns[t].target_ids)
                       /\ Len(turns[t].target_ids) >= 1)
    /\ [][\A t \in Turns :
             (/\ AddSucceeds(t)
              /\ turns[t].action = "update"
              /\ Len(turns[t].new_facts) = 1
              /\ Len(turns[t].similar_memories) = 1)
             => /\ turns[t].log = <<<<"query">>, <<"llm">>,
                                    <<"delete", turns[t].similar_memories[1].id>>,
                                    <<"add">>>>
                /\ turns'[t].pc = "done" /\ turns'[t].status = "success"
                /\ turns'[t].saved_count = 0 /\ turns'[t].updated_count = 1
                /\ turns'[t].message = <<<<"updated", 1>>>>
                /\ turns'[t].added_new = 0 /\ turns'[t].added_upd = 1]_vars

C13_Witness ==
    \E t \in Turns :
        /\ turns[t].pc = "done" /\ turns[t].status = "success"
        /\ turns[t].message = <<<<"updated", 1>>>>
        /\ turns[t].added_upd = 1 /\ turns[t].added_new = 0
        /\ turns[t].errors = {}

\* C14: the result of a finished turn reports as saved the number of facts
\* that were persisted as new records and as updated the number of facts that
\* were persisted as replacements, whatever calls failed during the turn.
C14_CountsMatchPersisted ==
    \A t \in Turns :
        (turns[t].pc = "done" /\ turns[t].status = "success")
        => /\ turns[t].saved_count = turns[t].added_new
           /\ turns[t].updated_count = turns[t].added_upd

\* C15: a delete that raises (the id is already gone, say) is harmless where it
\* is called.  In a turn the except clause takes it: the turn goes on with the
\* next fact, or ends normally when there is none, and no exception leaves the
\* pipeline.  In the audit task the loop goes on with the next id of the batch,
\* or the task returns normally when there is none.
C15_DeleteFailureHarmless ==
    [][/\ \A t \in Turns :
              Raises(t, "delete") =>
                  LET n == NextStr(turns[t].new_facts, turns[t].fact_i + 1)
                  IN  IF n # 0
                      THEN turns'[t].pc = "query" /\ turns'[t].fact_i = n
                      ELSE turns'[t].pc = "done" /\ turns'[t].status = "success"
       /\ \A k \in TaskIds :
              (tasks[k].kind = "cleanup" /\ tasks[k].pc = "delete" /\ tasks'[k] # tasks[k]) =>
                  LET fr == tasks[k].frame
                      n  == NextInBatch(fr.ids_to_delete, fr.valid_batch_ids, fr.del_i + 1)
                  IN  IF n # 0
                      THEN tasks'[k].pc = "delete" /\ tasks'[k].frame.del_i = n
                      ELSE tasks'[k] = NoTask /\ last_done'.outcome = "ok"]_vars

C15_Witness ==
    \E t \in Turns :
        /\ <<"delete", 1>> \in turns[t].errors
        /\ turns[t].pc = "query" /\ turns[t].fact_i = 2

\* the unfinished audit tasks that are past their first step
Auditing == {k \in TaskIds : tasks[k].kind = "cleanup" /\ tasks[k].pc \in {"query", "audit", "delete"}}

\* C16: an audit task calls delete only for ids of the batch it fetched at its
\* start; an id the model returns that is not in that batch causes no call.
C16_AuditDeletesOnlyBatchIds ==
    \A k \in Auditing :
        LET fr == tasks[k].frame
            deletes == CallsOf(fr.log, "delete")
        IN  /\ \A i \in 1..Len(deletes) :
                   \E j \in 1..Len(fr.valid_batch_ids) : deletes[i][2] = fr.valid_batch_ids[j]
            /\ Len(fr.log) <= 2 + Len(fr.ids_to_delete)

C16_Witness ==
    \E k \in Auditing :
        LET fr == tasks[k].frame
        IN  /\ tasks[k].pc = "delete"
            /\ fr.ids_to_delete = <<"m9", "m1">>
            /\ fr.log = <<<<"query">>, <<"llm">>, <<"delete", "m1">>>>

\* C17: an audit task that finds a batch size <= 0 returns in its first step,
\* normally, having called neither the store nor the model.
C17_BatchSizeNotPositiveIsNoOp ==
    /\ [](valves.cleanup_batch_size <= 0 => Auditing = {})
    /\ [][\A k \in TaskIds :
             (/\ tasks[k].kind = "cleanup" /\ tasks[k].pc = "scheduled"
              /\ tasks'[k] # tasks[k]
              /\ valves.cleanup_batch_size <= 0)
             => /\ tasks'[k] = NoTask
                /\ last_done' = [kind |-> "cleanup", uid |-> tasks[k].uid, outcome |-> "ok"]]_vars

C17_Witness ==
    /\ valves.cleanup_batch_size = 0
    /\ last_done.kind = "cleanup" /\ last_done.outcome = "ok"
    /\ \A k \in TaskIds : tasks[k] = NoTask

\* this step is the return of a call of turn t that raised
RaisesAny(t) == turns'[t].errors # turns[t].errors

\* C18: no failure of the model or the store during a turn leaves the handler
\* as an exception: the handler returns the body it was given, and a turn in
\* which calls failed ends with a status string (success or error), whatever
\* combination of retrieval, classification, delete and add calls failed (a
\* failed extraction is an empty fact list).
C18_NoErrorEscapesTheTurn ==
    /\ [](\A t \in Turns :
             turns[t].pc = "done" =>
                 /\ turns[t].status \in {"none", "success", "skipped", "error"}
                 /\ turns[t].errors # {} => turns[t].status \in {"success", "error"})
    /\ [][\A t \in Turns :
             /\ turns[t].pc # "idle" => turns'[t].body = turns[t].body
             /\ RaisesAny(t) =>
                    \/ turns'[t].pc \in {"query", "add"}
                    \/ turns'[t].pc = "done" /\ turns'[t].status \in {"success", "error"}]_vars

C18_Witness ==
    \E t \in Turns :
        /\ turns[t].pc = "done" /\ turns[t].status = "success"
        /\ turns[t].errors = {<<"query", 1>>, <<"add", 1>>, <<"delete", 2>>}
        /\ Len(turns[t].body) = 2

\* this step is the return of the classification call of turn t, with a reply
\* (no exception) that holds `word`, resp. does not hold it, once lower-cased
Classified(t) ==
    /\ turns[t].pc = "classify" /\ turns'[t] # turns[t]
    /\ ~turns'[t].decided.reply.raises

Says(t, word) ==
    \E i \in 1..Len(turns'[t].decided.reply.text) :
        Lower(turns'[t].decided.reply.text[i]) = word

\* C19: a fact classified duplicate is dropped: no add and no delete is issued
\* for it, the saved and updated counts stay as they are, the consolidation
\* counter is not incremented, and the turn goes on with the next fact.
C19_DuplicateIsDropped ==
    [][\A t \in Turns :
          (Classified(t) /\ Says(t, "duplicate")) =>
              /\ turns'[t].decided.action = "skip"
              /\ CallsOf(turns[t].log, "add") = << >> /\ CallsOf(turns[t].log, "delete") = << >>
              /\ LET n == NextStr(turns[t].new_facts, turns[t].fact_i + 1)
                 IN  IF n # 0
                     THEN turns'[t].pc = "query" /\ turns'[t].fact_i = n
                     ELSE turns'[t].pc = "done"
              /\ turns'[t].saved_count = turns[t].saved_count
              /\ turns'[t].updated_count = turns[t].updated_count
              /\ turns'[t].added_new = turns[t].added_new
              /\ turns'[t].added_upd = turns[t].added_upd
              /\ _user_memory_counters' = _user_memory_counters
              /\ tasks' = tasks]_vars

C19_Witness ==
    \E t \in Turns :
        /\ turns[t].pc = "query" /\ turns[t].fact_i = 2
        /\ turns[t].new_facts[1] = "f"
        /\ turns[t].decided.action = "skip"
        /\ turns[t].saved_count = 0 /\ turns[t].updated_count = 0
        /\ turns[t].errors = {}
        /\ _user_memory_counters[turns[t].uid] = 0

\* C20: with candidates present the classifier lower-cases the reply and
\* decides by substring in a fixed order: a reply holding "duplicate" gives
\* skip, also when it holds "update" as well; otherwise one holding "update"
\* gives update; otherwise the result is new with no target ids.
C20_ClassifierPrecedence ==
    [][\A t \in Turns :
          Classified(t) =>
              /\ turns[t].similar_memories # << >>
              /\ IF Says(t, "duplicate")
                 THEN /\ turns'[t].decided.action = "skip"
                      /\ turns'[t].pc \notin {"delete", "add"}
                 ELSE IF Says(t, "update")
                 THEN /\ turns'[t].decided.action = "update"
                      /\ turns'[t].action = "update" /\ turns'[t].pc = "delete"
                      /\ turns'[t].target_ids # << >>
                 ELSE /\ turns'[t].decided.action = "new"
                      /\ turns'[t].action = "new" /\ turns'[t].pc = "add"
                      /\ turns'[t].target_ids = << >>]_vars

C20_Witness ==
    \E t \in Turns :
        /\ turns[t].pc = "done"
        /\ turns[t].decided.reply = LlmText(<<"Update", "duplicate">>)
        /\ turns[t].decided.action = "skip"
        /\ turns[t].saved_count = 0 /\ turns[t].updated_count = 0

\* C21: when saving one fact fails, a delete or the add raising, the loop
\* still attempts every remaining fact of the turn, in order: the turn goes on
\* with the query of the next str fact, and with none left it ends with status
\* success.
C21_PartialFailureGoesOn ==
    [][\A t \in Turns :
          (Raises(t, "delete") \/ Raises(t, "add")) =>
              LET later == {j \in (turns[t].fact_i + 1)..Len(turns[t].new_facts) :
                                turns[t].new_facts[j] # NonStr}
              IN  IF later # {}
                  THEN /\ turns'[t].pc = "query"
                       /\ turns'[t].fact_i \in later
                       /\ \A j \in later : turns'[t].fact_i <= j
                       /\ turns'[t].new_facts = turns[t].new_facts
                  ELSE /\ turns'[t].pc = "done"
                       /\ turns'[t].status = "success"]_vars

C21_Witness ==
    \E t \in Turns :
        /\ turns[t].pc = "done" /\ turns[t].status = "success"
        /\ <<"add", 1>> \in turns[t].errors
        /\ turns[t].added_new = 1
        /\ turns[t].saved_count = 2

\* the place of a call in the order query, classify, deletes, add
CallRank(call) ==
    CASE call[1] = "query"  -> 1
      [] call[1] = "llm"    -> 2
      [] call[1] = "delete" -> 3
      [] call[1] = "add"    -> 4

\* C22: within one turn the facts are processed one after another with no
\* fan-out.  The calls of a fact are issued in the order query, classify,
\* deletes, add, one at a time, each after the one before it has returned; the
\* counter is incremented at the return of the fact's add; and the query of
\* the next fact is issued only at the return of the last call of the fact
\* before it, after that increment.
C22_FactsOneAfterAnother ==
    /\ [](\A t \in Turns :
             LET log == turns[t].log
             IN  /\ \A i, j \in 1..Len(log) : i < j => CallRank(log[i]) <= CallRank(log[j])
                 /\ \A c \in {"query", "llm", "add"} : Len(CallsOf(log, c)) <= 1
                 /\ turns[t].pc = "query"    => log = <<<<"query">>>>
                 /\ turns[t].pc = "classify" => log = <<<<"query">>, <<"llm">>>>
                 /\ turns[t].pc = "delete"   => log[Len(log)][1] = "delete"
                 /\ turns[t].pc = "add"      => log[Len(log)][1] = "add")
    /\ [][/\ \A t \in Turns :
                /\ (turns'[t] # turns[t] /\ turns[t].pc \in {"query", "classify", "delete"}
                    /\ turns'[t].pc \in {"classify", "delete", "add"})
                   => /\ turns'[t].fact_i = turns[t].fact_i
                      /\ Len(turns'[t].log) = Len(turns[t].log) + 1
                      /\ SubSeq(turns'[t].log, 1, Len(turns[t].log)) = turns[t].log
                /\ (turns'[t] # turns[t] /\ turns'[t].pc = "query")
                   => /\ turns[t].pc \in {"extract", "classify", "delete", "add"}
                      /\ turns'[t].fact_i > turns[t].fact_i
                      /\ \A j \in (turns[t].fact_i + 1)..(turns'[t].fact_i - 1) :
                             turns'[t].new_facts[j] = NonStr
          /\ _user_memory_counters' # _user_memory_counters
             => \E t \in Turns : AddSucceeds(t) /\ turns'[t].pc \in {"query", "done"}]_vars

C22_Witness ==
    \E t \in Turns :
        /\ turns[t].pc = "query" /\ turns[t].fact_i = 2
        /\ turns[t].added_upd = 1
        /\ _user_memory_counters[turns[t].uid] = 1
        /\ turns[t].errors = {}


\* C23: a successful save for user A changes A's counter only and creates at
\* most one task, a consolidation task for A.  The counter of every other
\* user B, the in-flight set and the tasks that exist are unchanged, and
\* whenever A's count reaches N while A is not in flight A's task is created,
\* whichever other users are in flight.
C23_OtherUsersUntouched ==
    [][\A t \in Turns :
          OnFactSaved(t) =>
              LET a == turns[t].uid
                  created == {k \in TaskIds : tasks'[k] # tasks[k]}
              IN  /\ \A b \in Users \ {a} :
                         _user_memory_counters'[b] = _user_memory_counters[b]
                  /\ _summarization_running' = _summarization_running
                  /\ Cardinality(created) <= 1
                  /\ \A k \in created :
                         /\ tasks[k] = NoTask
                         /\ tasks'[k].kind = "consolidation"
                         /\ tasks'[k].uid = a
                  /\ (_user_memory_counters[a] + 1 >= N /\ a \notin _summarization_running)
                     => SchedulesOne("consolidation", a)]_vars

\* u2's task has been in flight since the start, and u1's task was created
C23_Witness ==
    /\ last_done = NoneDone
    /\ tasks[1].uid = "u2" /\ tasks[1].pc = "running"
    /\ "u2" \in _summarization_running
    /\ \E k \in TaskIds : /\ tasks[k].kind = "consolidation"
                          /\ tasks[k].uid = "u1"
                          /\ tasks[k].pc = "scheduled"


\* the turn was answered by the cleanup branch of outlet
CleanupTurn(t) ==
    /\ turns[t].pc = "done"
    /\ turns[t].message = <<<<"cleanup started">>>>

\* C24: one call of outlet takes either the cleanup branch or the pipeline,
\* never both.  The step that creates the audit task ends the turn at once,
\* with the cleanup message and with nothing extracted, queried, classified,
\* saved or counted; every other first step creates no task; a finished turn
\* takes no further step; and an audit task exists or has finished only beside
\* a turn answered by the cleanup branch, whose user's counter is untouched.
C24_AuditOrPipeline ==
    /\ [](\A t \in Turns :
             /\ CleanupTurn(t)
                => /\ turns[t].status = "success"
                   /\ turns[t].saved_count = 0 /\ turns[t].updated_count = 0
                   /\ turns[t].added_new = 0 /\ turns[t].added_upd = 0
                   /\ turns[t].errors = {}
                   /\ turns[t].decided = IdleTurn.decided
                   /\ turns[t].new_facts = << >> /\ turns[t].log = << >>
                   /\ _user_memory_counters[turns[t].uid] = 0
                   /\ Live("consolidation", turns[t].uid) = {}
             /\ (turns[t].pc # "idle" /\ ~CleanupTurn(t))
                => /\ Live("cleanup", turns[t].uid) = {}
                   /\ last_done.kind # "cleanup")
    /\ [][\A t \in Turns :
             /\ (turns[t].pc = "idle" /\ turns'[t] # turns[t])
                => \/ /\ SchedulesOne("cleanup", turns'[t].uid)
                      /\ CleanupTurn(t)'
                      /\ UNCHANGED _user_memory_counters
                   \/ /\ UNCHANGED tasks
                      /\ ~CleanupTurn(t)'
             /\ turns[t].pc = "done" => turns'[t] = turns[t]]_vars

\* the audit task beside the turn whose outlet call created it
C24_Witness ==
    \E t \in Turns :
        /\ CleanupTurn(t)
        /\ \E k \in TaskIds : tasks[k].kind = "cleanup" /\ tasks[k].uid = turns[t].uid


\* the places of the user messages of a list
UserPlaces(m) == {i \in 1..Len(m) : m[i].role = "user"}

\* the last of them
LastPlace(m) == CHOOSE i \in UserPlaces(m) : \A j \in UserPlaces(m) : j <= i

\* the turn is inside _process_memory, past the extraction call's issue
InPipeline(t) == turns[t].pc \in {"extract", "query", "classify", "delete", "add"}

\* C25: a turn whose messages hold no user message returns "skipped" from its
\* first step, with no model call and no store call; a turn that has one
\* reaches the extraction call, and its context is the last user message
\* paired with the message right before it when that is an assistant message,
\* and with "none" otherwise.
C25_ExtractionContext ==
    /\ [](\A t \in Turns :
             LET m == turns[t].body
             IN  /\ (turns[t].pc # "idle" /\ Len(m) >= 2 /\ UserPlaces(m) = {})
                    => /\ turns[t].pc = "done" /\ turns[t].status = "skipped"
                       /\ turns[t].log = << >> /\ turns[t].new_facts = << >>
                       /\ turns[t].decided = IdleTurn.decided
                       /\ turns[t].errors = {}
                       /\ turns[t].added_new = 0 /\ turns[t].added_upd = 0
                 /\ InPipeline(t)
                    => /\ UserPlaces(m) # {}
                       /\ LET i == LastPlace(m)
                          IN  turns[t].context =
                                  <<"[Context] AI:",
                                    IF i > 1 /\ m[i - 1].role = "assistant"
                                    THEN m[i - 1].content ELSE "none",
                                    "[Target] User:", m[i].content>>)
    /\ [][\A t \in Turns :
             /\ turns'[t].status = "skipped" /\ turns'[t] # turns[t]
                => turns[t].pc = "idle"
             /\ (turns[t].pc = "idle" /\ turns'[t] # turns[t]
                 /\ Len(turns'[t].body) >= 2 /\ UserPlaces(turns'[t].body) # {})
                => turns'[t].pc = "extract"]_vars

\* the last user message stands after a message that is no assistant message,
\* with an assistant message further back
C25_Witness ==
    \E t \in Turns :
        /\ turns[t].pc = "extract"
        /\ Len(turns[t].body) = 3
        /\ turns[t].body[1].role = "assistant"
        /\ turns[t].body[2].role # "assistant"
        /\ turns[t].body[3].role = "user"
        /\ turns[t].context[2] = "none"


\* the deletes of the current fact that have returned without raising
DeletesDone(t) ==
    IF turns[t].pc = "delete" THEN turns[t].del_i - 1
    ELSE Len(CallsOf(turns[t].log, "delete"))

\* C26: an update is all or nothing.  At the step that ends the processing of
\* a fact classified update, either the fact's add has succeeded or none of
\* the deletes of its superseded records has returned, whichever deletes and
\* adds raise.
C26_UpdateAllOrNothing ==
    [][\A t \in Turns :
          (/\ turns[t].action = "update"
           /\ turns[t].pc \in {"delete", "add"}
           /\ turns'[t].pc \in {"query", "done"})
          => \/ AddSucceeds(t)
             \/ DeletesDone(t) = 0]_vars


\* the consolidation tasks, whoever they are for
Consolidations == {k \in TaskIds : tasks[k].kind = "consolidation"}

\* C27: the counter counts persisted facts only.  The step in which a fact's
\* add succeeds raises its user's counter by one, or takes it from N - 1 to 0
\* with one consolidation task created; every other step of a turn, a skipped
\* fact, a fact that is no str, a raising query, delete or add included,
\* leaves the counters, the in-flight set and the consolidation tasks as they
\* were.  Hence the facts counted for the turn's user, those still in the
\* counter and N for each task created, are the facts persisted.
C27_CounterCountsPersisted ==
    /\ [](\A t \in Turns :
             turns[t].pc # "idle"
             => _user_memory_counters[turns[t].uid]
                    + N * Cardinality(Live("consolidation", turns[t].uid))
                = turns[t].added_new + turns[t].added_upd)
    /\ [][\A t \in Turns :
             turns'[t] # turns[t]
             => IF AddSucceeds(t)
                THEN LET u == turns[t].uid
                         count == _user_memory_counters[u] + 1
                     IN  /\ \A b \in Users \ {u} :
                                _user_memory_counters'[b] = _user_memory_counters[b]
                         /\ _summarization_running' = _summarization_running
                         /\ \/ /\ _user_memory_counters'[u] = count
                               /\ UNCHANGED tasks
                            \/ /\ count >= N
                               /\ _user_memory_counters'[u] = 0
                               /\ SchedulesOne("consolidation", u)
                ELSE /\ UNCHANGED <<_user_memory_counters, _summarization_running>>
                     /\ Consolidations' = Consolidations
                     /\ \A k \in Consolidations : tasks'[k] = tasks[k]]_vars

\* a turn whose first fact was saved and counted and whose second fact's add
\* raised
C27_Witness ==
    \E t \in Turns :
        /\ turns[t].pc = "done"
        /\ turns[t].added_new + turns[t].added_upd = 1
        /\ <<"add", 2>> \in turns[t].errors
        /\ _user_memory_counters[turns[t].uid] = 1


\* the place in the text of the first match that is this link
FirstAppearance(u, text) ==
    CHOOSE i \in 1..Len(text) :
        /\ text[i].kind = "url" /\ text[i].url = u
        /\ \A j \in 1..(i - 1) : ~(text[j].kind = "url" /\ text[j].url = u)

\* C28: the list of links main builds has no duplicate and follows the text:
\* of two links of the list the one that appears first in the text stands
\* first.
C28_LinksInOrderOfAppearance ==
    dl.pc = "listed"
    => /\ \A i, j \in 1..Len(dl.ordered) : i # j => dl.ordered[i] # dl.ordered[j]
       /\ \A i, j \in 1..Len(dl.ordered) :
              i < j => FirstAppearance(dl.ordered[i], dl.text)
                           < FirstAppearance(dl.ordered[j], dl.text)


\* the tasks of the pool that have their target
Taken == {i \in DOMAIN dl.workers : dl.workers[i].pc # "queued"}

\* C29: in download_with_python no two workers write the same target.  The
\* targets of the links of the list are pairwise distinct, a file holds the
\* bytes of one worker at most, and what a worker's resume check measures was
\* written by that worker.
C29_WorkersNeverShareATarget ==
    dl.pc = "python"
    => /\ \A i, j \in Taken : i # j => dl.workers[i].target # dl.workers[j].target
       /\ \A f \in Filenames : Cardinality(dl.files[f].writers) <= 1
       /\ \A i \in Taken : dl.workers[i].seen \subseteq {i}

====
